---- MODULE Spec2Model ----
(***************************************************************************)
(* Model of the double-labeling (Dijkstra P/T label) trace engine of the   *)
(* Shortest-Path-Visualizer, src/services/dijkstra.ts.                     *)
(*                                                                         *)
(* One call of runDoubleLabeling is a state machine: the call's arguments  *)
(* (nodes, edges, startNodeId, endNodeId), its locals (nodeStates,         *)
(* permanentNodes, unvisitedCount, steps, u) and its position (pc).        *)
(* Node ids and edge ids are opaque strings in the source; here they are   *)
(* small integers that are only ever compared for equality.                *)
(*                                                                         *)
(* The caller of the engine, src/App.tsx with the editor of                *)
(* src/components/GraphCanvas.tsx, is a second state machine over the same *)
(* graph variables: one action per handler, the engine called as a         *)
(* function inside generateSteps.                                          *)
(***************************************************************************)
EXTENDS Integers, Sequences, FiniteSets, TLC

\* ---- bounds of the explored inputs ----
MaxNodes == 3
MaxEdges == 3
MaxWeight == 1
\* The edits of the graph (add, drag, delete, clear, set start, set end) that
\* are followed from the freshly mounted App.
MaxEdits == 1

\* ---- values of the source ----
\* JavaScript's Infinity: larger than every finite path length in the bounds.
Infinity == 1000000
\* The empty string that App stores as the start or end id when there is
\* none (App.tsx 168); no node has this id.
NoId == 0
\* JavaScript's null (parent of an unreached node, u before a node is chosen,
\* activeNodeId / checkingEdgeId of a step without one, and what
\* JSON.stringify writes for a non-finite number).
Null == -Infinity

VARIABLES nodes, edges, startNodeId, endNodeId,
          nodeStates, permanentNodes, unvisitedCount, steps, u, pc, result,
          currentStepIndex, isPlaying, selection, mode, moved, edits,
          reinvoked

vars == <<nodes, edges, startNodeId, endNodeId,
          nodeStates, permanentNodes, unvisitedCount, steps, u, pc, result,
          currentStepIndex, isPlaying, selection, mode, moved, edits,
          reinvoked>>

inputs == <<nodes, edges, startNodeId, endNodeId>>

\* The state of the caller of the engine: the playback and editor state of
\* App (App.tsx 110-117), with the node positions kept as the set of the
\* nodes that were dragged (moved) and the count of the edits made (edits);
\* and whether the engine has been called before (reinvoked).
caller == <<currentStepIndex, isPlaying, selection, mode, moved, edits,
            reinvoked>>

\* ---- helpers over sequences ----
Range(s) == {s[i] : i \in DOMAIN s}

Last(s) == s[Len(s)]

\* ---- the inputs that are explored ----
\* The pairs i < j of 1..n, the slots of a simple graph on n nodes:
\* <<1,2>>, <<1,3>>, <<2,3>>, <<1,4>>, ...
RECURSIVE PairsFrom(_)
PairsFrom(n) ==
    IF n < 2 THEN <<>>
    ELSE PairsFrom(n - 1) \o [i \in 1..(n - 1) |-> <<i, n>>]

\* The edge list picked by a weight per slot (Null: no edge in that slot).
\* flip writes every edge with the larger id as its source.
RECURSIVE EdgesOf(_, _, _, _)
EdgesOf(pairs, w, flip, k) ==
    IF k > Len(pairs) THEN <<>>
    ELSE IF w[k] = Null THEN EdgesOf(pairs, w, flip, k + 1)
    ELSE <<[id     |-> k,
            source |-> IF flip THEN pairs[k][2] ELSE pairs[k][1],
            target |-> IF flip THEN pairs[k][1] ELSE pairs[k][2],
            weight |-> w[k]]>> \o EdgesOf(pairs, w, flip, k + 1)

\* The weightings of the slots of n nodes that pick at most MaxEdges edges.
NumEdges(w) == Cardinality({k \in DOMAIN w : w[k] # Null})

\* Node lists: the ids 1..n, listed from 2 on with 1 last (<<2, 3, 1>>), so
\* that the position in the list follows neither the ascending nor the
\* descending order of the ids.
NodeList(n) == [i \in 1..n |-> (i % n) + 1]

\* ---- the label map ----
\* InitialNodeStates with the start node left unvisited.
InitialNodeStatesStartUnvisited(ns, start) ==
    [id \in Range(ns) |->
        [distance |-> IF id = start THEN 0 ELSE Infinity,
         parent   |-> IF id = start THEN start ELSE Null,
         status   |-> "unvisited"]]

\* InitialNodeStates over a label map that outlives the call: a node that
\* has a label from an earlier call keeps it.
InitialNodeStatesShared(ns, start) ==
    [id \in Range(ns) |->
        IF id \in DOMAIN nodeStates THEN nodeStates[id]
        ELSE [distance |-> IF id = start THEN 0 ELSE Infinity,
              parent   |-> IF id = start THEN start ELSE Null,
              status   |-> IF id = start THEN "temporary" ELSE "unvisited"]]

\* dijkstra.ts 12-19
InitialNodeStates(ns, start) ==
    [id \in Range(ns) |->
        [distance |-> IF id = start THEN 0 ELSE Infinity,
         parent   |-> IF id = start THEN start ELSE Null,
         status   |-> IF id = start THEN "temporary" ELSE "unvisited"]]

\* JSON.parse(JSON.stringify(x)) of the label map, dijkstra.ts 33: a deep copy
\* in which a non-finite distance is written as null.
JsonRoundTrip(states) ==
    [id \in DOMAIN states |->
        [distance |-> IF states[id].distance = Infinity THEN Null
                      ELSE states[id].distance,
         parent   |-> states[id].parent,
         status   |-> states[id].status]]

\* snapshot that numbers the steps from 1.
snapshotOneBased(stps, desc, active, edge, states, perms) ==
    Append(stps, [stepIndex      |-> Len(stps) + 1,
                  description    |-> desc,
                  activeNodeId   |-> active,
                  checkingEdgeId |-> edge,
                  nodeStates     |-> JsonRoundTrip(states),
                  permanentNodes |-> perms])

\* snapshot without the copy of the permanent list ([...permanentNodes]):
\* every step holds the working list itself, so the steps emitted earlier show
\* the list as it is now.
snapshotSharedPermanentNodes(stps, desc, active, edge, states, perms) ==
    Append([i \in DOMAIN stps |-> [stps[i] EXCEPT !.permanentNodes = perms]],
           [stepIndex      |-> Len(stps),
            description    |-> desc,
            activeNodeId   |-> active,
            checkingEdgeId |-> edge,
            nodeStates     |-> JsonRoundTrip(states),
            permanentNodes |-> perms])

\* snapshot, dijkstra.ts 22-36: the list of steps with one more step.  The
\* description is the text of the step without the labels and numbers it
\* quotes: "init" (line 42), "none_reachable" (61), "finalize" (71),
\* "arrive" (78), "update" (99), "check" (106).
snapshot(stps, desc, active, edge, states, perms) ==
    Append(stps, [stepIndex      |-> Len(stps),
                  description    |-> desc,
                  activeNodeId   |-> active,
                  checkingEdgeId |-> edge,
                  nodeStates     |-> JsonRoundTrip(states),
                  permanentNodes |-> perms])

\* dijkstra.ts 47-57: scan the node list for the smallest non-permanent label.
RECURSIVE ScanMin(_, _, _, _, _)
ScanMin(ns, states, i, minDistance, best) ==
    IF i > Len(ns) THEN [u |-> best, minDistance |-> minDistance]
    ELSE IF states[ns[i]].status # "permanent"
            /\ states[ns[i]].distance < minDistance
         THEN ScanMin(ns, states, i + 1, states[ns[i]].distance, ns[i])
         ELSE ScanMin(ns, states, i + 1, minDistance, best)

\* SelectMin with every label compared to Infinity instead of to the smallest
\* label seen so far: the last labelled node of the list wins.
RECURSIVE ScanLabelled(_, _, _, _, _)
ScanLabelled(ns, states, i, minDistance, best) ==
    IF i > Len(ns) THEN [u |-> best, minDistance |-> minDistance]
    ELSE IF states[ns[i]].status # "permanent"
            /\ states[ns[i]].distance < Infinity
         THEN ScanLabelled(ns, states, i + 1, states[ns[i]].distance, ns[i])
         ELSE ScanLabelled(ns, states, i + 1, minDistance, best)

SelectLastLabelled(ns, states) == ScanLabelled(ns, states, 1, Infinity, Null)

\* SelectMin with <= in place of < : among equal labels the last one of the
\* list wins.
RECURSIVE ScanMinLastTie(_, _, _, _, _)
ScanMinLastTie(ns, states, i, minDistance, best) ==
    IF i > Len(ns) THEN [u |-> best, minDistance |-> minDistance]
    ELSE IF states[ns[i]].status # "permanent"
            /\ states[ns[i]].distance <= minDistance
         THEN ScanMinLastTie(ns, states, i + 1, states[ns[i]].distance, ns[i])
         ELSE ScanMinLastTie(ns, states, i + 1, minDistance, best)

SelectMinLastTie(ns, states) == ScanMinLastTie(ns, states, 1, Infinity, Null)

SelectMin(ns, states) == ScanMin(ns, states, 1, Infinity, Null)

\* The receiver of a filter that removes in place what it does not keep.
FilterReceiverInPlace(es, node) ==
    SelectSeq(es, LAMBDA e : e.source = node \/ e.target = node)

\* dijkstra.ts 84: the array that Array.prototype.filter was called on, after
\* the call.  filter builds a new array and leaves its receiver as it was.
FilterReceiver(es, node) == es

\* Neighbors that keeps only the edges whose source is the node.
NeighborsOutgoing(es, node) == SelectSeq(es, LAMBDA e : e.source = node)

\* dijkstra.ts 84
Neighbors(es, node) == SelectSeq(es, LAMBDA e : e.source = node \/ e.target = node)

\* TargetId of an edge read as directed, from its source to its target.
TargetIdDirected(edge, node) == edge.target

\* dijkstra.ts 87
TargetId(edge, node) == IF edge.source = node THEN edge.target ELSE edge.source

\* MayRelax without the test of the status.
MayRelaxAnyStatus(states, targetId) == TRUE

\* dijkstra.ts 89
MayRelax(states, targetId) == states[targetId].status # "permanent"

\* Improves with <= in place of < : an equal candidate updates the label.
ImprovesOrTies(newDist, currentDist) == newDist <= currentDist

\* dijkstra.ts 93
Improves(newDist, currentDist) == newDist < currentDist

\* dijkstra.ts 86-113: the for loop over the neighbours of node, from the
\* k-th on.  Reading nodeStates[targetId].status of an id that is no key of
\* the map throws a TypeError, which ends the call.
RECURSIVE RelaxFrom(_, _, _, _, _, _)
RelaxFrom(nbrs, k, node, states, stps, perms) ==
    IF k > Len(nbrs) THEN [states |-> states, steps |-> stps, threw |-> FALSE]
    ELSE LET edge     == nbrs[k]
             targetId == TargetId(edge, node)
         IN  IF targetId \notin DOMAIN states
             THEN [states |-> states, steps |-> stps, threw |-> TRUE]
             ELSE IF ~MayRelax(states, targetId)
             THEN RelaxFrom(nbrs, k + 1, node, states, stps, perms)
             ELSE LET newDist     == states[node].distance + edge.weight
                      currentDist == states[targetId].distance
                  IN  IF Improves(newDist, currentDist)
                      THEN LET upd == [states EXCEPT ![targetId] =
                                          [distance |-> newDist,
                                           parent   |-> node,
                                           status   |-> "temporary"]]
                           IN  RelaxFrom(nbrs, k + 1, node, upd,
                                   snapshot(stps, "update", node, edge.id, upd, perms),
                                   perms)
                      ELSE RelaxFrom(nbrs, k + 1, node, states,
                                   snapshot(stps, "check", node, edge.id, states, perms),
                                   perms)

\* IsArrival without the early exit.
IsArrivalNever(node, end) == FALSE

\* dijkstra.ts 77
IsArrival(node, end) == node = end

\* MarkPermanent that also forgets the parent of the node.
MarkPermanentDropsParent(states, id) ==
    [states EXCEPT ![id].status = "permanent", ![id].parent = Null]

\* MarkPermanent that leaves the status of the node as it is.
MarkPermanentSkipped(states, id) == states

\* dijkstra.ts 66
MarkPermanent(states, id) == [states EXCEPT ![id].status = "permanent"]

\* ---- the call as a function of its arguments ----
\* dijkstra.ts 44-116: the while loop from its head, and the return.  A
\* TypeError leaves the call without a returned trace.
RECURSIVE LoopFrom(_, _, _, _, _, _, _)
LoopFrom(ns, es, end, states, perms, count, stps) ==
    IF count <= 0 THEN [steps |-> stps, threw |-> FALSE]
    ELSE LET sel == SelectMin(ns, states) IN
         IF sel.u = Null \/ sel.minDistance = Infinity
         THEN [steps |-> snapshot(stps, "none_reachable", Null, Null,
                                  states, perms),
               threw |-> FALSE]
         ELSE LET marked == MarkPermanent(states, sel.u)
                  perms2 == Append(perms, sel.u)
                  final  == snapshot(stps, "finalize", sel.u, Null, marked, perms2)
              IN  IF IsArrival(sel.u, end)
                  THEN [steps |-> snapshot(final, "arrive", sel.u, Null,
                                           marked, perms2),
                        threw |-> FALSE]
                  ELSE LET r == RelaxFrom(Neighbors(es, sel.u), 1, sel.u,
                                          marked, final, perms2)
                       IN  IF r.threw
                           THEN [steps |-> r.steps, threw |-> TRUE]
                           ELSE LoopFrom(ns, es, end, r.states, perms2,
                                         count - 1, r.steps)

\* dijkstra.ts 3-117: the trace a call returns, from its arguments alone.
runDoubleLabeling(ns, es, start, end) ==
    LET states == InitialNodeStates(ns, start)
    IN  LoopFrom(ns, es, end, states, <<>>, Len(ns),
                 snapshot(<<>>, "init", Null, Null, states, <<>>))

\* ---- the call ----
\* App.tsx 110-117: the playback and editor state of a freshly mounted App.
\* While the engine is looked at on its own, the caller stays in this state.
CallerAtRest ==
    /\ currentStepIndex = -1
    /\ isPlaying = FALSE
    /\ selection = Null
    /\ mode = "SELECT"
    /\ moved = {}
    /\ edits = 0
    /\ reinvoked = FALSE

Entry(in) ==
    /\ CallerAtRest
    /\ nodes = in.nodes
    /\ edges = in.edges
    /\ startNodeId = in.start
    /\ endNodeId = in.end
    /\ nodeStates = <<>>
    /\ permanentNodes = <<>>
    /\ unvisitedCount = 0
    /\ steps = <<>>
    /\ u = Null
    /\ pc = "entry"
    /\ result = "running"

\* The calls on n listed nodes whose edges, start id and end id are drawn
\* from the ids 1..m, with weights drawn from weights.
CallOn(n, m, weights) ==
    \E w \in [1..Len(PairsFrom(m)) -> weights \cup {Null}] :
    \E flip \in BOOLEAN, s \in 1..m, e \in 1..m :
        /\ NumEdges(w) <= MaxEdges
        /\ Entry([nodes |-> NodeList(n),
                  edges |-> EdgesOf(PairsFrom(m), w, flip, 1),
                  start |-> s, end |-> e])

\* The weights of the explored edges.  The engine does not look at the sign of
\* a weight (dijkstra.ts 90), so a negative one is among them.
Weights == (-1)..MaxWeight

\* The calls on a well-formed graph: a non-empty node list, edges between
\* listed nodes, start and end ids of listed nodes.
Init == \E n \in 1..MaxNodes : CallOn(n, n, Weights)

\* The calls on a validated graph: well-formed, and no weight negative.
InitValidated == \E n \in 1..MaxNodes : CallOn(n, n, 0..MaxWeight)

\* The slots of a multigraph on n nodes: a self-loop at node 1, then the
\* pairs i < j, then the pair of nodes 1 and 2 once more, so that two edges
\* may join that pair.  The start and the end node range over all nodes, so
\* the self-loop and the parallel edges lie at, before or after them.
MultiSlots(n) ==
    <<<<1, 1>>>> \o PairsFrom(n) \o (IF n >= 2 THEN <<<<1, 2>>>> ELSE <<>>)

\* The calls on a validated multigraph: listed endpoints, unique edge ids, no
\* negative weight, self-loops and parallel edges among the edges.
InitMulti ==
    \E n \in 1..MaxNodes :
    \E w \in [1..Len(MultiSlots(n)) -> (0..MaxWeight) \cup {Null}] :
    \E s \in 1..n, e \in 1..n :
        /\ NumEdges(w) <= MaxEdges
        /\ Entry([nodes |-> NodeList(n),
                  edges |-> EdgesOf(MultiSlots(n), w, FALSE, 1),
                  start |-> s, end |-> e])

\* Any call, dijkstra.ts 3-8: the listed nodes are the ids 1..n of the ids 1..m
\* that the edges, the start id and the end id are drawn from, so an edge, the
\* start id or the end id may name an id that is not listed, and the list may
\* be empty.
InitUnvalidated == \E m \in 1..MaxNodes : \E n \in 0..m : CallOn(n, m, Weights)

\* dijkstra.ts 9-42: build the label map and emit step 0.
Initialize ==
    /\ pc = "entry"
    /\ nodeStates' = InitialNodeStates(nodes, startNodeId)
    /\ permanentNodes' = <<>>
    /\ unvisitedCount' = Len(nodes)
    /\ steps' = snapshot(<<>>, "init", Null, Null, nodeStates', <<>>)
    /\ pc' = "loop"
    /\ UNCHANGED <<inputs, u, result, caller>>

\* dijkstra.ts 44-80: one pass of the loop head.  The while condition; the
\* selection; the "no more reachable" exit; making u permanent; the arrival
\* exit.  A break is followed by the return of line 116.
SelectAndFinalize ==
    /\ pc = "loop"
    /\ IF unvisitedCount <= 0
       THEN /\ pc' = "done"
            /\ result' = "returned"
            /\ UNCHANGED <<nodeStates, permanentNodes, unvisitedCount, steps, u>>
       ELSE LET sel == SelectMin(nodes, nodeStates) IN
            IF sel.u = Null \/ sel.minDistance = Infinity
            THEN /\ steps' = snapshot(steps, "none_reachable", Null, Null,
                                      nodeStates, permanentNodes)
                 /\ u' = sel.u
                 /\ pc' = "done"
                 /\ result' = "returned"
                 /\ UNCHANGED <<nodeStates, permanentNodes, unvisitedCount>>
            ELSE LET marked == MarkPermanent(nodeStates, sel.u)
                     perms  == Append(permanentNodes, sel.u)
                     final  == snapshot(steps, "finalize", sel.u, Null, marked, perms)
                 IN  /\ u' = sel.u
                     /\ nodeStates' = marked
                     /\ permanentNodes' = perms
                     /\ unvisitedCount' = unvisitedCount - 1
                     /\ IF IsArrival(sel.u, endNodeId)
                        THEN /\ steps' = snapshot(final, "arrive", sel.u, Null,
                                                  marked, perms)
                             /\ pc' = "done"
                             /\ result' = "returned"
                        ELSE /\ steps' = final
                             /\ pc' = "relax"
                             /\ UNCHANGED result
    /\ UNCHANGED <<inputs, caller>>

\* dijkstra.ts 84-113: examine the edges incident to u in edge-list order.
UpdateNeighbors ==
    /\ pc = "relax"
    /\ LET r == RelaxFrom(Neighbors(edges, u), 1, u, nodeStates, steps,
                          permanentNodes)
       IN  /\ nodeStates' = r.states
           /\ steps' = r.steps
           /\ IF r.threw
              THEN pc' = "threw" /\ result' = "TypeError"
              ELSE pc' = "loop" /\ UNCHANGED result
    /\ edges' = FilterReceiver(edges, u)
    /\ UNCHANGED <<nodes, startNodeId, endNodeId, permanentNodes,
                   unvisitedCount, u, caller>>

Next ==
    \/ Initialize
    \/ SelectAndFinalize
    \/ UpdateNeighbors

Spec == Init /\ [][Next]_vars

SpecUnvalidated == InitUnvalidated /\ [][Next]_vars

\* A further call of the engine after one has returned, on the same graph
\* with any listed start and end node.  The memory of the earlier call is
\* still there: a call that read any of it before writing it would go wrong.
Reinvoke ==
    /\ pc = "done"
    /\ \E s \in Range(nodes), e \in Range(nodes) :
          /\ startNodeId' = s
          /\ endNodeId' = e
    /\ pc' = "entry"
    /\ result' = "running"
    /\ reinvoked' = TRUE
    /\ UNCHANGED <<nodes, edges, nodeStates, permanentNodes, unvisitedCount,
                   steps, u, currentStepIndex, isPlaying, selection, mode,
                   moved, edits>>

NextRepeat ==
    \/ Initialize
    \/ SelectAndFinalize
    \/ UpdateNeighbors
    \/ Reinvoke

SpecMulti == InitMulti /\ [][Next]_vars

\* Any number of calls, one after the other, on a validated graph.
SpecRepeat == InitValidated /\ [][NextRepeat]_vars

\* The call runs to completion: runDoubleLabeling is synchronous code on the
\* single JavaScript thread, so a step that can be taken is taken.
SpecLive == InitValidated /\ [][Next]_vars /\ WF_vars(Next)

(***************************************************************************)
(* The App, src/App.tsx and src/components/GraphCanvas.tsx: the graph      *)
(* editor and the playback of a trace.  Each handler is one action: React  *)
(* applies the state updates of a handler together, and the effect of      *)
(* App.tsx 133-149 runs after them.  The engine is called inside           *)
(* generateSteps and returns before the handler ends.                      *)
(***************************************************************************)
\* constants.ts 19-26: the ids '1'..'6'.
INITIAL_NODES == <<1, 2, 3, 4, 5, 6>>

\* constants.ts 28-38: the edges 'e1'..'e9'.
INITIAL_EDGES ==
    <<[id |-> 1, source |-> 1, target |-> 2, weight |-> 4],
      [id |-> 2, source |-> 1, target |-> 3, weight |-> 2],
      [id |-> 3, source |-> 2, target |-> 3, weight |-> 1],
      [id |-> 4, source |-> 2, target |-> 4, weight |-> 5],
      [id |-> 5, source |-> 3, target |-> 4, weight |-> 8],
      [id |-> 6, source |-> 3, target |-> 5, weight |-> 10],
      [id |-> 7, source |-> 4, target |-> 5, weight |-> 2],
      [id |-> 8, source |-> 4, target |-> 6, weight |-> 6],
      [id |-> 9, source |-> 5, target |-> 6, weight |-> 3]>>

\* types.ts 33-39
EditorMode == {"SELECT", "ADD_NODE", "ADD_EDGE", "SET_START", "SET_END"}

\* GraphCanvas.tsx 108: Math.floor(Math.random() * 9) + 2 is one of 2..10; the
\* least and the greatest of them are followed.
RandomWeights == {2, 10}

\* GraphCanvas.tsx 111: the id `e-${Date.now()}` of a new edge.  The clock
\* reads differently at each edit, and never like 'e1'..'e9'.
NewEdgeId == Len(INITIAL_EDGES) + 1 + edits

\* GraphCanvas.tsx 133-134: one more than the greatest id of the list.
RECURSIVE MaxId(_, _)
MaxId(ns, i) ==
    IF i > Len(ns) THEN 0
    ELSE LET rest == MaxId(ns, i + 1)
         IN  IF ns[i] > rest THEN ns[i] ELSE rest

NextId(ns) == MaxId(ns, 1) + 1

\* The locals of the engine, which the App never sees.
engine == <<nodeStates, permanentNodes, unvisitedCount, u, pc>>

\* App.tsx 104-118: the freshly mounted App.
InitApp ==
    /\ nodes = INITIAL_NODES
    /\ edges = INITIAL_EDGES
    /\ startNodeId = 1
    /\ endNodeId = 6
    /\ steps = <<>>
    /\ CallerAtRest
    /\ nodeStates = <<>>
    /\ permanentNodes = <<>>
    /\ unvisitedCount = 0
    /\ u = Null
    /\ pc = "idle"
    /\ result = "none"

\* EffectIsPlaying without the branch that stops the playback at the last
\* step.
EffectIsPlayingKept(playing, index, stps) == playing

\* App.tsx 133-149, the effect: what isPlaying is once the effect has run on
\* a state with this isPlaying, index and trace.
EffectIsPlaying(playing, index, stps) ==
    IF playing /\ Len(stps) > 0 /\ index < Len(stps) - 1 THEN playing
    ELSE IF index >= Len(stps) - 1 THEN FALSE
    ELSE playing

\* resetAlgorithm that clears the playback but keeps the trace.
resetAlgorithmKeepsTrace ==
    /\ isPlaying' = FALSE
    /\ currentStepIndex' = -1
    /\ steps' = steps

\* App.tsx 151-155
resetAlgorithm ==
    /\ isPlaying' = FALSE
    /\ currentStepIndex' = -1
    /\ steps' = <<>>

\* App.tsx 122-131 and 249: the play button while there is no trace.
generateSteps ==
    /\ Len(steps) = 0
    /\ IF startNodeId = NoId \/ endNodeId = NoId
       THEN UNCHANGED <<steps, currentStepIndex, isPlaying, result>>
       ELSE LET r == runDoubleLabeling(nodes, edges, startNodeId, endNodeId)
            IN  IF r.threw
                THEN /\ result' = "TypeError"
                     /\ UNCHANGED <<steps, currentStepIndex, isPlaying>>
                ELSE /\ result' = "returned"
                     /\ steps' = r.steps
                     /\ currentStepIndex' = 0
                     /\ isPlaying' = EffectIsPlaying(FALSE, 0, r.steps)
    /\ UNCHANGED <<inputs, engine, selection, mode, moved, edits, reinvoked>>

\* App.tsx 249: the play button while there is a trace.
TogglePlay ==
    /\ Len(steps) # 0
    /\ isPlaying' = EffectIsPlaying(~isPlaying, currentStepIndex, steps)
    /\ UNCHANGED <<inputs, engine, result, steps, currentStepIndex, selection,
                   mode, moved, edits, reinvoked>>

\* App.tsx 259: the reset button.
ResetButton ==
    /\ resetAlgorithm
    /\ UNCHANGED <<inputs, engine, result, selection, mode, moved, edits,
                   reinvoked>>

\* App.tsx 191-195: the index that handleStep moves to.
StepTo(direction, index, stps) ==
    IF direction = "forward" /\ index < Len(stps) - 1 THEN index + 1
    ELSE IF direction = "backward" /\ index > 0 THEN index - 1
    ELSE index

\* App.tsx 189-196 and 271-273: the step buttons, shown while there is a
\* trace and disabled at its ends.
handleStep ==
    /\ Len(steps) > 0
    /\ \E direction \in {"forward", "backward"} :
          /\ direction = "backward" => ~(currentStepIndex <= 0)
          /\ direction = "forward" => ~(currentStepIndex >= Len(steps) - 1)
          /\ currentStepIndex' = StepTo(direction, currentStepIndex, steps)
          /\ isPlaying' = EffectIsPlaying(FALSE, currentStepIndex', steps)
    /\ UNCHANGED <<inputs, engine, result, steps, selection, mode, moved,
                   edits, reinvoked>>

\* App.tsx 135-145: a tick of the interval, which exists while the effect
\* found the playback running before the last step.
TimerTick ==
    /\ isPlaying /\ Len(steps) > 0 /\ currentStepIndex < Len(steps) - 1
    /\ currentStepIndex' = IF currentStepIndex >= Len(steps) - 1
                           THEN currentStepIndex
                           ELSE currentStepIndex + 1
    /\ isPlaying' = EffectIsPlaying(currentStepIndex < Len(steps) - 1,
                                    currentStepIndex', steps)
    /\ UNCHANGED <<inputs, engine, result, steps, selection, mode, moved,
                   edits, reinvoked>>

\* App.tsx 157-160
handleModeChange ==
    /\ \E newMode \in EditorMode : mode' = newMode
    /\ selection' = Null
    /\ UNCHANGED <<inputs, engine, result, steps, currentStepIndex, isPlaying,
                   moved, edits, reinvoked>>

\* App.tsx 162-187: the delete button of the toolbar, with the confirmation
\* accepted.  Nothing hands onSelect to a handler of GraphCanvas, so
\* selection stays null and the button clears the canvas.
handleDelete ==
    /\ edits < MaxEdits
    /\ IF selection # Null
       THEN IF selection.type = "node"
            THEN /\ nodes' = SelectSeq(nodes, LAMBDA n : n # selection.id)
                 /\ edges' = SelectSeq(edges, LAMBDA e : e.source # selection.id
                                                    /\ e.target # selection.id)
                 /\ startNodeId' = IF startNodeId = selection.id THEN NoId
                                   ELSE startNodeId
                 /\ endNodeId' = IF endNodeId = selection.id THEN NoId
                                 ELSE endNodeId
                 /\ moved' = moved \ {selection.id}
            ELSE /\ edges' = SelectSeq(edges, LAMBDA e : e.id # selection.id)
                 /\ UNCHANGED <<nodes, startNodeId, endNodeId, moved>>
       ELSE /\ nodes' = <<>>
            /\ edges' = <<>>
            /\ startNodeId' = NoId
            /\ endNodeId' = NoId
            /\ moved' = {}
    /\ selection' = Null
    /\ resetAlgorithm
    /\ edits' = edits + 1
    /\ UNCHANGED <<engine, result, mode, reinvoked>>

\* GraphCanvas.tsx 123-143 and App.tsx 211: a click on the background in
\* ADD_NODE mode.
AddNode ==
    /\ edits < MaxEdits
    /\ mode = "ADD_NODE"
    /\ nodes' = Append(nodes, NextId(nodes))
    /\ resetAlgorithm
    /\ edits' = edits + 1
    /\ UNCHANGED <<edges, startNodeId, endNodeId, engine, result, selection,
                   mode, moved, reinvoked>>

\* GraphCanvas.tsx 48-52, 67-84 and App.tsx 211: a node dragged in SELECT
\* mode.
DragNode ==
    /\ edits < MaxEdits
    /\ mode = "SELECT"
    /\ \E nodeId \in Range(nodes) : moved' = moved \cup {nodeId}
    /\ resetAlgorithm
    /\ edits' = edits + 1
    /\ UNCHANGED <<inputs, engine, result, selection, mode, reinvoked>>

\* GraphCanvas.tsx 53-57, 86-121 and App.tsx 212: in ADD_EDGE mode, the mouse
\* pressed on one node and released on another that no edge joins to it.
AddEdge ==
    /\ edits < MaxEdits
    /\ mode = "ADD_EDGE"
    /\ \E start \in Range(nodes), target \in Range(nodes), weight \in RandomWeights :
          /\ target # start
          /\ ~\E k \in DOMAIN edges :
                \/ edges[k].source = start /\ edges[k].target = target
                \/ edges[k].source = target /\ edges[k].target = start
          /\ edges' = Append(edges, [id |-> NewEdgeId, source |-> start,
                                     target |-> target, weight |-> weight])
    /\ resetAlgorithm
    /\ edits' = edits + 1
    /\ UNCHANGED <<nodes, startNodeId, endNodeId, engine, result, selection,
                   mode, moved, reinvoked>>

\* GraphCanvas.tsx 58-59 and App.tsx 216: a node pressed in SET_START mode.
SetStart ==
    /\ edits < MaxEdits
    /\ mode = "SET_START"
    /\ \E nodeId \in Range(nodes) : startNodeId' = nodeId
    /\ resetAlgorithm
    /\ edits' = edits + 1
    /\ UNCHANGED <<nodes, edges, endNodeId, engine, result, selection, mode,
                   moved, reinvoked>>

\* GraphCanvas.tsx 60-61 and App.tsx 217: a node pressed in SET_END mode.
SetEnd ==
    /\ edits < MaxEdits
    /\ mode = "SET_END"
    /\ \E nodeId \in Range(nodes) : endNodeId' = nodeId
    /\ resetAlgorithm
    /\ edits' = edits + 1
    /\ UNCHANGED <<nodes, edges, startNodeId, engine, result, selection, mode,
                   moved, reinvoked>>

\* ContextDeleteNode that removes the node and leaves its edges.
ContextDeleteNodeKeepsEdges ==
    /\ edits < MaxEdits
    /\ \E nodeId \in Range(nodes) :
          /\ nodes' = SelectSeq(nodes, LAMBDA n : n # nodeId)
          /\ moved' = moved \ {nodeId}
    /\ resetAlgorithm
    /\ edits' = edits + 1
    /\ UNCHANGED <<edges, startNodeId, endNodeId, engine, result, selection,
                   mode, reinvoked>>

\* GraphCanvas.tsx 285-293: the context menu of a node, with the
\* confirmation accepted.  The start and end ids are left as they are.
ContextDeleteNode ==
    /\ edits < MaxEdits
    /\ \E nodeId \in Range(nodes) :
          /\ nodes' = SelectSeq(nodes, LAMBDA n : n # nodeId)
          /\ edges' = SelectSeq(edges, LAMBDA e : e.source # nodeId
                                             /\ e.target # nodeId)
          /\ moved' = moved \ {nodeId}
    /\ resetAlgorithm
    /\ edits' = edits + 1
    /\ UNCHANGED <<startNodeId, endNodeId, engine, result, selection, mode,
                   reinvoked>>

\* GraphCanvas.tsx 234-240: the context menu of an edge, with the
\* confirmation accepted.
ContextDeleteEdge ==
    /\ edits < MaxEdits
    /\ \E k \in DOMAIN edges :
          edges' = SelectSeq(edges, LAMBDA e : e.id # edges[k].id)
    /\ resetAlgorithm
    /\ edits' = edits + 1
    /\ UNCHANGED <<nodes, startNodeId, endNodeId, engine, result, selection,
                   mode, moved, reinvoked>>

NextApp ==
    \/ generateSteps
    \/ TogglePlay
    \/ ResetButton
    \/ handleStep
    \/ TimerTick
    \/ handleModeChange
    \/ handleDelete
    \/ AddNode
    \/ DragNode
    \/ AddEdge
    \/ SetStart
    \/ SetEnd
    \/ ContextDeleteNode
    \/ ContextDeleteEdge

SpecApp == InitApp /\ [][NextApp]_vars

\* The App left to its timer: the default graph with any of its nodes as the
\* start and the end node, the trace of generateSteps for them, the user
\* having stepped to any index of it before the last and then pressed play
\* (App.tsx 249).
InitAutoplay ==
    \E s \in Range(INITIAL_NODES), e \in Range(INITIAL_NODES) :
    LET r == runDoubleLabeling(INITIAL_NODES, INITIAL_EDGES, s, e) IN
    \E index \in 0..(Len(r.steps) - 2) :
        /\ nodes = INITIAL_NODES
        /\ edges = INITIAL_EDGES
        /\ startNodeId = s
        /\ endNodeId = e
        /\ steps = r.steps
        /\ currentStepIndex = index
        /\ isPlaying = EffectIsPlaying(TRUE, index, r.steps)
        /\ selection = Null
        /\ mode = IF e # 6 THEN "SET_END" ELSE IF s # 1 THEN "SET_START"
                  ELSE "SELECT"
        /\ moved = {}
        /\ edits = (IF s # 1 THEN 1 ELSE 0) + (IF e # 6 THEN 1 ELSE 0)
        /\ reinvoked = FALSE
        /\ nodeStates = <<>>
        /\ permanentNodes = <<>>
        /\ unvisitedCount = 0
        /\ u = Null
        /\ pc = "idle"
        /\ result = "returned"

\* No handler runs; the interval of App.tsx 136 fires every playbackSpeed
\* milliseconds for as long as it exists, so a tick that can happen does.
SpecAutoplay == InitAutoplay /\ [][TimerTick]_vars /\ WF_vars(TimerTick)

(***************************************************************************)
(* What the properties are stated against: the graph as mathematics,       *)
(* written without the engine's operators.                                 *)
(***************************************************************************)
Finished == pc \in {"done", "threw"}

NodeSet == Range(nodes)

NonNegativeWeights == \A k \in DOMAIN edges : edges[k].weight >= 0

OtherEnd(e, v) == IF e.source = v THEN e.target ELSE e.source

Incident(e, v) == e.source = v \/ e.target = v

MinOf(S) == CHOOSE x \in S : \A y \in S : x <= y

\* The labels are kept as a sequence indexed by node id: the listed ids are
\* 1..Len(nodes).  The best of the label of v and the labels of its neighbours
\* plus the weight of the joining edge:
Best(D, v) ==
    MinOf({D[v]} \cup
          {D[OtherEnd(edges[k], v)] + edges[k].weight :
              k \in {j \in DOMAIN edges :
                        /\ Incident(edges[j], v)
                        /\ OtherEnd(edges[j], v) \in DOMAIN D
                        /\ D[OtherEnd(edges[j], v)] # Infinity}})

\* One round of shortening, for the nodes 1..v.
RECURSIVE Shorten(_, _)
Shorten(D, v) == IF v = 0 THEN <<>> ELSE Append(Shorten(D, v - 1), Best(D, v))

RECURSIVE ShortenTimes(_, _)
ShortenTimes(D, k) ==
    IF k = 0 THEN D ELSE ShortenTimes(Shorten(D, Len(D)), k - 1)

RECURSIVE StartLabels(_)
StartLabels(v) ==
    IF v = 0 THEN <<>>
    ELSE Append(StartLabels(v - 1), IF v = startNodeId THEN 0 ELSE Infinity)

\* The length of a shortest path from startNodeId to each node in the graph
\* read as undirected (Infinity: no path), for non-negative weights: a
\* shortest path has fewer edges than there are nodes.
TrueDistance == ShortenTimes(StartLabels(Len(nodes)), Len(nodes))

\* The nodes joined to startNodeId by a path of edges.
RECURSIVE ReachFrom(_)
ReachFrom(S) ==
    LET T == S \cup {v \in NodeSet :
                        \E k \in DOMAIN edges :
                            Incident(edges[k], v) /\ OtherEnd(edges[k], v) \in S}
    IN  IF T = S THEN S ELSE ReachFrom(T)

Reachable == ReachFrom({startNodeId} \cap NodeSet)

StatusAt(i, id) == steps[i].nodeStates[id].status

\* Step i is the step in which id becomes permanent.
FinalizedAt(i, id) ==
    /\ i \in 2..Len(steps)
    /\ id \in DOMAIN steps[i].nodeStates
    /\ StatusAt(i, id) = "permanent"
    /\ StatusAt(i - 1, id) # "permanent"

(***************************************************************************)
(* C1.  With non-negative weights and a listed start node, a node that is  *)
(* permanent (in the working label map and in every emitted step) carries  *)
(* the length of a shortest path from the start node in the undirected     *)
(* graph.                                                                  *)
(***************************************************************************)
C1_PermanentIsShortest ==
    NonNegativeWeights =>
        LET shortest == TrueDistance
        IN  /\ \A id \in DOMAIN nodeStates :
                   nodeStates[id].status = "permanent"
                       => nodeStates[id].distance = shortest[id]
            /\ \A i \in DOMAIN steps : \A id \in DOMAIN steps[i].nodeStates :
                   StatusAt(i, id) = "permanent"
                       => steps[i].nodeStates[id].distance = shortest[id]

\* A node whose finite label was improved by a later relaxation, and that was
\* made permanent afterwards.
C1_Witness ==
    /\ pc = "done"
    /\ NonNegativeWeights
    /\ \E id \in DOMAIN nodeStates :
          /\ nodeStates[id].status = "permanent"
          /\ \E i \in 2..Len(steps) :
                /\ steps[i - 1].nodeStates[id].distance # Null
                /\ steps[i].nodeStates[id].distance
                       < steps[i - 1].nodeStates[id].distance

(***************************************************************************)
(* C2.  Frozen permanence: a node that is permanent in step i has the same *)
(* distance and parent in every later step.                                *)
(***************************************************************************)
C2_FrozenPermanence ==
    \A i \in DOMAIN steps : \A j \in DOMAIN steps :
        i < j =>
            \A id \in DOMAIN steps[i].nodeStates :
                StatusAt(i, id) = "permanent" =>
                    /\ steps[j].nodeStates[id].distance
                          = steps[i].nodeStates[id].distance
                    /\ steps[j].nodeStates[id].parent
                          = steps[i].nodeStates[id].parent

\* A permanent node that has an edge to a node made permanent after it, with
\* the edges of that later node examined: the relaxation met the permanent
\* node.
C2_Witness ==
    /\ pc = "done"
    /\ \E i \in DOMAIN steps : \E j \in DOMAIN steps :
          /\ i < j /\ j < Len(steps)
          /\ steps[j].description = "finalize"
          /\ steps[j].activeNodeId # endNodeId
          /\ \E id \in DOMAIN steps[i].nodeStates :
                /\ StatusAt(i, id) = "permanent"
                /\ \E k \in DOMAIN edges :
                      /\ Incident(edges[k], id)
                      /\ OtherEnd(edges[k], id) = steps[j].activeNodeId
                      /\ id # steps[j].activeNodeId

(***************************************************************************)
(* C3.  Monotonic status: between two consecutive steps a node's status    *)
(* stays, or moves from unvisited to temporary, or from temporary to       *)
(* permanent; never backward, never from unvisited to permanent.           *)
(***************************************************************************)
StatusMoveAllowed(a, b) ==
    \/ a = b
    \/ a = "unvisited" /\ b = "temporary"
    \/ a = "temporary" /\ b = "permanent"

C3_MonotonicStatus ==
    \A i \in DOMAIN steps :
        i < Len(steps) =>
            \A id \in DOMAIN steps[i].nodeStates :
                StatusMoveAllowed(StatusAt(i, id), StatusAt(i + 1, id))

\* A node seen unvisited, then temporary, then permanent.
C3_Witness ==
    \E id \in DOMAIN nodeStates :
        \E i \in DOMAIN steps : \E j \in DOMAIN steps : \E k \in DOMAIN steps :
            /\ i < j /\ j < k
            /\ StatusAt(i, id) = "unvisited"
            /\ StatusAt(j, id) = "temporary"
            /\ StatusAt(k, id) = "permanent"

C5_NonDecreasingFinalization ==
    NonNegativeWeights =>
        \A i \in DOMAIN permanentNodes : \A j \in DOMAIN permanentNodes :
            i < j => nodeStates[permanentNodes[i]].distance
                        <= nodeStates[permanentNodes[j]].distance

\* Three permanent nodes, the last two at different distances, the later one
\* listed before the earlier one in the node list.
C5_Witness ==
    /\ NonNegativeWeights
    /\ Len(permanentNodes) = MaxNodes
    /\ nodeStates[permanentNodes[2]].distance
          < nodeStates[permanentNodes[3]].distance
    /\ \E a \in DOMAIN nodes : \E b \in DOMAIN nodes :
          /\ a < b
          /\ nodes[a] = permanentNodes[3]
          /\ nodes[b] = permanentNodes[2]

(***************************************************************************)
(* The validation errors.  The engine has one way to fail, the TypeError   *)
(* of RelaxFrom; "GraphInvalid" is the result the validation would give.   *)
(***************************************************************************)
HasDanglingEdge ==
    \E k \in DOMAIN edges :
        edges[k].source \notin NodeSet \/ edges[k].target \notin NodeSet

HasNegativeWeight == \E k \in DOMAIN edges : edges[k].weight < 0

\* The call was rejected, or may still be: no step exists and the result is
\* not a trace.
Rejected ==
    /\ steps = <<>>
    /\ result \in {"running", "GraphInvalid"}
    /\ Finished => result = "GraphInvalid"

(***************************************************************************)
(* C6.  An edge that names an id missing from the node list makes the call *)
(* fail with GraphInvalid, with no step produced.                          *)
(***************************************************************************)
C6_DanglingEdgeRejected == HasDanglingEdge => Rejected

(***************************************************************************)
(* C7.  A start id or an end id missing from the node list makes the call  *)
(* fail with GraphInvalid, with no step produced, not even step 0.         *)
(***************************************************************************)
C7_UnknownStartOrEndRejected ==
    (startNodeId \notin NodeSet \/ endNodeId \notin NodeSet) => Rejected

(***************************************************************************)
(* C8.  An empty node list makes the call fail with GraphInvalid, with no  *)
(* step produced.                                                          *)
(***************************************************************************)
C8_EmptyNodeListRejected == nodes = <<>> => Rejected

(***************************************************************************)
(* C9.  A negative edge weight makes the call fail with GraphInvalid       *)
(* before any step is produced.                                            *)
(***************************************************************************)
C9_NegativeWeightRejected == HasNegativeWeight => Rejected

(***************************************************************************)
(* C10.  Unreachable end: when no path joins the start node to the end     *)
(* node, the returned trace ends with the "no further reachable nodes"     *)
(* step, in which the end node is not in permanentNodes and is unvisited   *)
(* or temporary with distance Infinity.                                    *)
(***************************************************************************)
C10_UnreachableEnd ==
    (pc = "done" /\ endNodeId \notin Reachable) =>
        /\ result = "returned"
        /\ Last(steps).description = "none_reachable"
        /\ endNodeId \notin Range(Last(steps).permanentNodes)
        /\ Last(steps).nodeStates[endNodeId].status \in {"unvisited", "temporary"}
        /\ Last(steps).nodeStates[endNodeId].distance = Infinity

(***************************************************************************)
(* C11.  The newest step's nodeStates is a full copy of the working label  *)
(* map at the instant the step is emitted: the same nodes, and for every   *)
(* node the same distance (Infinity of an unreached node included), parent *)
(* and status.  Every action ends with the working map as it was when the  *)
(* newest step was emitted.                                                *)
(***************************************************************************)
C11_StepIsFullCopy ==
    steps # <<>> =>
        /\ DOMAIN Last(steps).nodeStates = DOMAIN nodeStates
        /\ \A id \in DOMAIN nodeStates :
              /\ Last(steps).nodeStates[id].distance = nodeStates[id].distance
              /\ Last(steps).nodeStates[id].parent = nodeStates[id].parent
              /\ Last(steps).nodeStates[id].status = nodeStates[id].status

(***************************************************************************)
(* C13.  Step 0 is the initialization snapshot: the start node temporary   *)
(* with distance 0 and itself as parent, every other node unvisited with   *)
(* distance Infinity and no parent, permanentNodes empty, no active node   *)
(* and no checked edge.                                                    *)
(***************************************************************************)
C13_InitializationSnapshot ==
    steps # <<>> =>
        /\ steps[1].stepIndex = 0
        /\ steps[1].permanentNodes = <<>>
        /\ steps[1].activeNodeId = Null
        /\ steps[1].checkingEdgeId = Null
        /\ DOMAIN steps[1].nodeStates = NodeSet
        /\ \A id \in NodeSet :
              IF id = startNodeId
              THEN steps[1].nodeStates[id] =
                      [distance |-> 0, parent |-> id, status |-> "temporary"]
              ELSE steps[1].nodeStates[id] =
                      [distance |-> Infinity, parent |-> Null,
                       status |-> "unvisited"]

\* The position of a listed id in the node list.
PositionOf(id) == CHOOSE i \in DOMAIN nodes : nodes[i] = id

\* The non-permanent nodes of a label map that carry its smallest
\* non-permanent distance.
TiedAtMinimum(states) ==
    LET open == {id \in DOMAIN states : states[id].status # "permanent"}
    IN  {id \in open :
            \A other \in open : states[id].distance <= states[other].distance}

(***************************************************************************)
(* C14.  Tie-break: in every step of the call that makes a node permanent, *)
(* that node is, among the non-permanent nodes whose distance is the       *)
(* minimum, the one listed first in the node list.                         *)
(***************************************************************************)
C14_TieBreakFirstListed ==
    [][Len(permanentNodes') = Len(permanentNodes) + 1 =>
          LET chosen == Last(permanentNodes')
          IN  /\ chosen \in TiedAtMinimum(nodeStates)
              /\ \A id \in TiedAtMinimum(nodeStates) :
                    PositionOf(chosen) <= PositionOf(id)]_vars

\* A selection among two nodes of equal minimal distance in which the node
\* made permanent is listed first and has the larger id.
C14_Witness ==
    \E k \in 2..Len(steps) :
        /\ steps[k].description = "finalize"
        /\ \E id \in DOMAIN steps[k - 1].nodeStates :
              /\ id # steps[k].activeNodeId
              /\ id < steps[k].activeNodeId
              /\ steps[k - 1].nodeStates[id].status # "permanent"
              /\ steps[k - 1].nodeStates[id].distance # Null
              /\ steps[k - 1].nodeStates[id].distance
                    = steps[k - 1].nodeStates[steps[k].activeNodeId].distance

(***************************************************************************)
(* C18.  The call does not mutate its inputs: no step of the call changes  *)
(* the node list, the edge list (order, ids, endpoints, weights), the      *)
(* start id or the end id, so after the call they are what they were       *)
(* before it.                                                              *)
(***************************************************************************)
C18_InputsNotMutated ==
    [][/\ nodes' = nodes
       /\ edges' = edges
       /\ startNodeId' = startNodeId
       /\ endNodeId' = endNodeId]_vars

\* A returned call that examined the edges of two nodes of a graph in which
\* some edge is not incident to the first of them.
C18_Witness ==
    /\ pc = "done"
    /\ result = "returned"
    /\ Len(permanentNodes) >= 3
    /\ \E k \in DOMAIN edges : ~Incident(edges[k], permanentNodes[1])
    /\ \E i \in DOMAIN steps : steps[i].description = "update"

(***************************************************************************)
(* C19.  The trace is append-only: every step that exists stays at its     *)
(* index with the same description, activeNodeId, checkingEdgeId,          *)
(* nodeStates and permanentNodes through every later finalization,         *)
(* relaxation and append of the call.                                      *)
(***************************************************************************)
C19_AppendOnly ==
    [][/\ Len(steps') >= Len(steps)
       /\ \A i \in DOMAIN steps : steps'[i] = steps[i]]_vars

\* A finished call whose working label map and working permanent list both
\* changed after an earlier step was emitted.
C19_Witness ==
    /\ pc = "done"
    /\ \E i \in DOMAIN steps :
          /\ i < Len(steps)
          /\ steps[i].permanentNodes # <<>>
          /\ steps[i].permanentNodes # permanentNodes
          /\ steps[i].nodeStates # Last(steps).nodeStates
          /\ \E j \in DOMAIN steps : j > i /\ steps[j].description = "update"

\* The statuses of the label map after a step are those before it with
\* exactly the node chosen, not permanent before, now permanent.
OneMorePermanent(chosen) ==
    /\ chosen \notin Range(permanentNodes)
    /\ nodeStates[chosen].status # "permanent"
    /\ permanentNodes' = Append(permanentNodes, chosen)
    /\ \A id \in DOMAIN nodeStates :
          nodeStates'[id].status = "permanent"
              <=> (nodeStates[id].status = "permanent" \/ id = chosen)

\* One pass of the loop: its head exits, or makes one more node permanent
\* (and may exit on arrival); its body makes no node permanent.
IterationProgress ==
    /\ pc = "loop" =>
          \/ pc' = "done" /\ permanentNodes' = permanentNodes
          \/ \E chosen \in NodeSet : OneMorePermanent(chosen)
    /\ pc = "relax" =>
          /\ permanentNodes' = permanentNodes
          /\ \A id \in DOMAIN nodeStates :
                nodeStates'[id].status = "permanent"
                    <=> nodeStates[id].status = "permanent"

(***************************************************************************)
(* C15.  Termination: on every validated graph the call returns; each pass *)
(* of the loop exits or makes exactly one node permanent that was not      *)
(* permanent before; the permanent nodes are never more than the listed    *)
(* nodes; and the trace is finite: at most the initial step, one step per  *)
(* listed node, two per edge (one from each endpoint) and a closing step.  *)
(***************************************************************************)
C15_Termination ==
    /\ <>(pc = "done" /\ result = "returned")
    /\ [](Len(permanentNodes) <= Len(nodes))
    /\ [](Len(steps) <= 2 + Len(nodes) + 2 * Len(edges))
    /\ [][IterationProgress]_vars

\* A returned call that made every listed node permanent, the end node last.
C15_Witness ==
    /\ pc = "done"
    /\ result = "returned"
    /\ Len(permanentNodes) = Len(nodes)
    /\ Len(nodes) = MaxNodes
    /\ Len(steps) > Len(nodes) + 2

\* The stepwise call and the call as a function agree: when the call is
\* over, its trace and its way of ending are those of runDoubleLabeling.
CallMatchesFunction ==
    Finished =>
        LET r == runDoubleLabeling(nodes, edges, startNodeId, endNodeId)
        IN  /\ r.threw <=> pc = "threw"
            /\ r.steps = steps

(***************************************************************************)
(* C12.  Determinism and no shared state: the trace a call returns is the  *)
(* trace that a first call on the same nodes, edges, start id and end id   *)
(* returns, whatever calls ran before it; so two calls on identical inputs *)
(* return identical traces.                                                *)
(***************************************************************************)
C12_DeterministicAndFresh ==
    pc = "done" =>
        /\ result = "returned"
        /\ steps = runDoubleLabeling(nodes, edges, startNodeId, endNodeId).steps

\* A call that returned after an earlier call had left the labels of all
\* listed nodes behind, and that ended with a node still not permanent.
C12_Witness ==
    /\ pc = "done"
    /\ reinvoked
    /\ Len(nodes) = MaxNodes
    /\ Len(steps) > 3
    /\ \E id \in DOMAIN nodeStates : nodeStates[id].status # "permanent"

\* The App shows the default example: the graph, start and end of a freshly
\* mounted App.
DefaultExample ==
    /\ nodes = INITIAL_NODES
    /\ edges = INITIAL_EDGES
    /\ startNodeId = 1
    /\ endNodeId = 6

(***************************************************************************)
(* C16.  Default example graph, start v1, end v6: in the final step of the *)
(* trace, v3 has distance 2 and parent v1, v2 has distance 3 and parent    *)
(* v3, v4 has distance 8 and parent v2, v5 has distance 10 and parent v4,  *)
(* and v6 has distance 13 and is permanent.                                *)
(***************************************************************************)
C16_DefaultExampleLabels ==
    (DefaultExample /\ steps # <<>>) =>
        LET final == Last(steps).nodeStates
        IN  /\ final[3].distance = 2 /\ final[3].parent = 1
            /\ final[2].distance = 3 /\ final[2].parent = 3
            /\ final[4].distance = 8 /\ final[4].parent = 2
            /\ final[5].distance = 10 /\ final[5].parent = 4
            /\ final[6].distance = 13
            /\ final[6].status = "permanent"

\* The trace of the default example, played to its last step.
C16_Witness ==
    /\ DefaultExample
    /\ steps # <<>>
    /\ currentStepIndex = Len(steps) - 1
    /\ Last(steps).description = "arrive"

\* The nodes from id back to the start node along the parents of a label
\* map, the start node first; at most hops links are followed.
RECURSIVE PathTo(_, _, _)
PathTo(states, id, hops) ==
    IF states[id].parent = id \/ states[id].parent = Null \/ hops = 0
    THEN <<id>>
    ELSE Append(PathTo(states, states[id].parent, hops - 1), id)

(***************************************************************************)
(* C17, as stated.  Default example graph, start v1, end v6: the final     *)
(* permanent distance of v6 is 11, reached via the path v1, v3, v2, v4,    *)
(* v5, v6.                                                                 *)
(***************************************************************************)
C17_DefaultExampleEleven ==
    (DefaultExample /\ steps # <<>>) =>
        LET final == Last(steps).nodeStates
        IN  /\ final[6].status = "permanent"
            /\ final[6].distance = 11
            /\ PathTo(final, 6, Len(nodes)) = <<1, 3, 2, 4, 5, 6>>

(***************************************************************************)
(* C17, amended.  Default example graph, start v1, end v6: the final       *)
(* permanent distance of v6 is 13 (2 + 1 + 5 + 2 + 3), reached via the     *)
(* path v1, v3, v2, v4, v5, v6.                                            *)
(***************************************************************************)
C17_DefaultExampleThirteen ==
    (DefaultExample /\ steps # <<>>) =>
        LET final == Last(steps).nodeStates
        IN  /\ final[6].status = "permanent"
            /\ final[6].distance = 13
            /\ PathTo(final, 6, Len(nodes)) = <<1, 3, 2, 4, 5, 6>>

\* The trace of the default example with the end node made permanent, shown
\* at its first step.
C17_Witness ==
    /\ DefaultExample
    /\ steps # <<>>
    /\ currentStepIndex = 0
    /\ Last(steps).permanentNodes = <<1, 3, 2, 4, 5, 6>>

(***************************************************************************)
(* C20.  Whenever an edit changes the node list (the ids or the position   *)
(* of a node), the edge list, the start id or the end id, the trace is     *)
(* discarded: steps becomes empty and currentStepIndex becomes -1.  So a   *)
(* trace that is shown is the one the engine returns for the current       *)
(* nodes, edges, start id and end id.                                      *)
(***************************************************************************)
C20_EditsDiscardTrace ==
    /\ [][(\/ nodes' # nodes
           \/ moved' # moved
           \/ edges' # edges
           \/ startNodeId' # startNodeId
           \/ endNodeId' # endNodeId)
              => (steps' = <<>> /\ currentStepIndex' = -1)]_vars
    /\ [](steps # <<>> =>
            steps = runDoubleLabeling(nodes, edges, startNodeId, endNodeId).steps)

\* An edited graph with no trace, the engine having returned one.
C20_Witness ==
    /\ edits > 0
    /\ result = "returned"
    /\ steps = <<>>
    /\ currentStepIndex = -1
    /\ (nodes # INITIAL_NODES \/ edges # INITIAL_EDGES \/ moved # {}
        \/ startNodeId # 1 \/ endNodeId # 6)

\* The edge of the input that has this id.
EdgeWithId(id) == CHOOSE e \in Range(edges) : e.id = id

\* The distance that a step shows, read as a number: a step shows the
\* distance of an unreached node as null.
Shown(distance) == IF distance = Null THEN Infinity ELSE distance

\* Step i examines an edge.
Examines(i) == steps[i].checkingEdgeId # Null

(***************************************************************************)
(* C21.  Relaxation uses strict improvement: in every step that examines   *)
(* an edge from the just-finalized node u to a non-permanent node v, the   *)
(* label of v becomes (distance[u] + weight, u, temporary) if that         *)
(* candidate is smaller than distance[v] before the step, and otherwise,   *)
(* the candidate being equal or larger, the label of v stays as it was.    *)
(***************************************************************************)
C21_StrictImprovement ==
    \A i \in 2..Len(steps) :
        Examines(i) =>
            LET edge      == EdgeWithId(steps[i].checkingEdgeId)
                active    == steps[i].activeNodeId
                v         == OtherEnd(edge, active)
                before    == steps[i - 1].nodeStates
                after     == steps[i].nodeStates
                candidate == before[active].distance + edge.weight
            IN  /\ before[v].status # "permanent"
                /\ IF candidate < Shown(before[v].distance)
                   THEN /\ steps[i].description = "update"
                        /\ after[v] = [distance |-> candidate,
                                       parent   |-> active,
                                       status   |-> "temporary"]
                   ELSE /\ steps[i].description = "check"
                        /\ after[v] = before[v]

\* A step that examines an edge whose candidate equals the finite distance
\* that the other endpoint already has from another parent.
C21_Witness ==
    \E i \in 2..Len(steps) :
        /\ Examines(i)
        /\ LET edge   == EdgeWithId(steps[i].checkingEdgeId)
               active == steps[i].activeNodeId
               v      == OtherEnd(edge, active)
               before == steps[i - 1].nodeStates
           IN  /\ before[v].distance # Null
               /\ before[active].distance + edge.weight = before[v].distance
               /\ before[v].parent # active
               /\ steps[i].nodeStates[v].parent # active

\* The ids of the edges that are to be examined after step k made its active
\* node permanent, in the order of the edge list: the edges incident to that
\* node whose other endpoint is another node, not permanent in step k.
ToExamine(k) ==
    LET active == steps[k].activeNodeId
        due == SelectSeq(edges, LAMBDA e :
                   /\ Incident(e, active)
                   /\ OtherEnd(e, active) # active
                   /\ steps[k].nodeStates[OtherEnd(e, active)].status
                          # "permanent")
    IN  [j \in 1..Len(due) |-> due[j].id]

\* Step k makes a node other than the end node permanent, and the loop over
\* the edges of that node has run.
ExaminedAfter(k) ==
    /\ steps[k].description = "finalize"
    /\ steps[k].activeNodeId # endNodeId
    /\ (k < Len(steps) \/ pc # "relax")

(***************************************************************************)
(* C22.  After a step makes a node u other than the end node permanent,    *)
(* the steps that follow it, up to the next step that examines no edge,    *)
(* are exactly one step for each edge incident to u whose other endpoint   *)
(* is another node and not permanent, improving or not, in the order of    *)
(* the edge list, each with that edge as checkingEdgeId and u as           *)
(* activeNodeId.                                                           *)
(***************************************************************************)
C22_EveryIncidentEdgeExamined ==
    \A k \in DOMAIN steps :
        ExaminedAfter(k) =>
            LET due == ToExamine(k)
            IN  /\ Len(steps) >= k + Len(due)
                /\ \A j \in DOMAIN due :
                      /\ steps[k + j].checkingEdgeId = due[j]
                      /\ steps[k + j].activeNodeId = steps[k].activeNodeId
                      /\ steps[k + j].description \in {"update", "check"}
                /\ k + Len(due) < Len(steps) => ~Examines(k + Len(due) + 1)

\* A node with a self-loop made permanent and followed by the steps of two
\* edges, one of which does not improve the distance.
C22_Witness ==
    \E k \in DOMAIN steps :
        /\ ExaminedAfter(k)
        /\ Len(ToExamine(k)) >= 2
        /\ \E j \in DOMAIN ToExamine(k) : steps[k + j].description = "check"
        /\ \E j \in DOMAIN ToExamine(k) : steps[k + j].description = "update"
        /\ \E e \in Range(edges) :
              e.source = steps[k].activeNodeId /\ e.target = e.source

\* The edge list with the source and the target of its k-th edge swapped.
SwapEnds(es, k) ==
    [es EXCEPT ![k] = [id     |-> es[k].id,
                       source |-> es[k].target,
                       target |-> es[k].source,
                       weight |-> es[k].weight]]

\* Two traces show the same label maps and permanent lists, step by step.
SameLabels(a, b) ==
    /\ Len(a) = Len(b)
    /\ \A i \in DOMAIN a :
          /\ a[i].nodeStates = b[i].nodeStates
          /\ a[i].permanentNodes = b[i].permanentNodes

(***************************************************************************)
(* C23.  Edges are undirected for relaxation: the trace of a call has, in  *)
(* every step, the nodeStates and permanentNodes of the trace of the call  *)
(* on the same input with the source and target of any one edge swapped;   *)
(* and a step examines an edge from either of its endpoints, the other     *)
(* endpoint being the node relaxed.                                        *)
(***************************************************************************)
C23_UndirectedEdges ==
    pc = "done" =>
        /\ \A k \in DOMAIN edges :
              SameLabels(steps,
                         runDoubleLabeling(nodes, SwapEnds(edges, k),
                                           startNodeId, endNodeId).steps)
        /\ \A i \in DOMAIN steps :
              Examines(i) =>
                  Incident(EdgeWithId(steps[i].checkingEdgeId),
                           steps[i].activeNodeId)

\* A returned trace in which one edge is examined from its source and
\* another from its target, each improving the label of its other endpoint.
C23_Witness ==
    /\ pc = "done"
    /\ \E i \in DOMAIN steps : \E j \in DOMAIN steps :
          /\ steps[i].description = "update"
          /\ steps[j].description = "update"
          /\ EdgeWithId(steps[i].checkingEdgeId).source = steps[i].activeNodeId
          /\ EdgeWithId(steps[j].checkingEdgeId).target = steps[j].activeNodeId

SelfLoop(e) == e.source = e.target

\* The edges that join the two different nodes a and b.
Joining(a, b) == {e \in Range(edges) : Incident(e, a) /\ OtherEnd(e, a) = b}

Terminal(i) == steps[i].description \in {"arrive", "none_reachable"}

(***************************************************************************)
(* C25.  On a valid input, a terminal step (arrival, or "no further        *)
(* reachable nodes") appears only as the last step of the returned trace,  *)
(* and the returned trace ends with one: with the arrival step, the end    *)
(* node being the last of its permanentNodes, if and only if the end node  *)
(* is reachable from the start node, and with the "no further reachable    *)
(* nodes" step otherwise.                                                  *)
(***************************************************************************)
C25_TerminalStep ==
    /\ \A i \in DOMAIN steps : Terminal(i) => (i = Len(steps) /\ pc = "done")
    /\ pc = "done" =>
          /\ Terminal(Len(steps))
          /\ endNodeId \in Reachable <=>
                /\ Last(steps).description = "arrive"
                /\ Last(steps).permanentNodes # <<>>
                /\ Last(Last(steps).permanentNodes) = endNodeId
          /\ endNodeId \notin Reachable =>
                Last(steps).description = "none_reachable"

\* A returned trace that made two nodes permanent and ends with the "no
\* further reachable nodes" step, the end node not being reachable.
C25_Witness ==
    /\ pc = "done"
    /\ endNodeId \notin Reachable
    /\ Len(permanentNodes) >= 2
    /\ Last(steps).description = "none_reachable"

(***************************************************************************)
(* C26.  In every step, permanentNodes holds exactly the nodes that are    *)
(* permanent in the step's nodeStates, each once; it is a prefix of the    *)
(* permanentNodes of the next step, which is longer by the node made       *)
(* permanent if that step is a finalization step, and equal otherwise.     *)
(***************************************************************************)
C26_PermanentList ==
    \A i \in DOMAIN steps :
        LET P == steps[i].permanentNodes
        IN  /\ Range(P) = {id \in DOMAIN steps[i].nodeStates :
                              StatusAt(i, id) = "permanent"}
            /\ Cardinality(Range(P)) = Len(P)
            /\ i < Len(steps) =>
                  LET Q == steps[i + 1].permanentNodes
                  IN  IF steps[i + 1].description = "finalize"
                      THEN Q = Append(P, steps[i + 1].activeNodeId)
                      ELSE Q = P

\* A trace with three finalization steps and an edge examined between two
\* of them.
C26_Witness ==
    /\ Len(permanentNodes) >= 3
    /\ \E i \in DOMAIN steps : \E j \in DOMAIN steps :
          /\ i < j
          /\ Examines(i)
          /\ steps[i].permanentNodes # <<>>
          /\ steps[j].description = "finalize"

(***************************************************************************)
(* C27.  Label coupling, in every step of a trace on valid input: a node   *)
(* is unvisited if and only if its distance is Infinity and it has no      *)
(* parent; a temporary or permanent node has a finite distance and a       *)
(* parent; the start node has distance 0 and itself as parent, and is the  *)
(* first node made permanent.                                              *)
(***************************************************************************)
C27_LabelCoupling ==
    NonNegativeWeights =>
        \A i \in DOMAIN steps :
            /\ \A id \in DOMAIN steps[i].nodeStates :
                  LET label == steps[i].nodeStates[id]
                  IN  /\ label.status = "unvisited" <=>
                            (label.distance = Infinity /\ label.parent = Null)
                      /\ label.status \in {"temporary", "permanent"} =>
                            /\ label.distance \in 0..(Infinity - 1)
                            /\ label.parent # Null
            /\ steps[i].nodeStates[startNodeId].distance = 0
            /\ steps[i].nodeStates[startNodeId].parent = startNodeId
            /\ steps[i].permanentNodes # <<>> =>
                  steps[i].permanentNodes[1] = startNodeId

(***************************************************************************)
(* C28.  Step fields have a fixed shape by step kind.  The initialization  *)
(* step, which is step 0 and the only one of its kind, and the "no further *)
(* reachable nodes" step have no activeNodeId and no checkingEdgeId.  A    *)
(* finalization step has the node it makes permanent as activeNodeId, the  *)
(* arrival step the node made permanent by the step before it, and neither *)
(* has a checkingEdgeId.  A step that examines an edge has the most        *)
(* recently finalized node as activeNodeId and an edge incident to it as   *)
(* checkingEdgeId.  The stepIndex of a step is its position in the list,   *)
(* counted from 0.                                                         *)
(***************************************************************************)
C28_StepShape ==
    \A i \in DOMAIN steps :
        LET step == steps[i]
        IN  /\ step.stepIndex = i - 1
            /\ step.description = "init" <=> i = 1
            /\ step.description \in {"init", "none_reachable"} =>
                  step.activeNodeId = Null /\ step.checkingEdgeId = Null
            /\ step.description = "finalize" =>
                  /\ step.checkingEdgeId = Null
                  /\ step.activeNodeId = Last(step.permanentNodes)
                  /\ StatusAt(i - 1, step.activeNodeId) # "permanent"
                  /\ StatusAt(i, step.activeNodeId) = "permanent"
            /\ step.description = "arrive" =>
                  /\ step.checkingEdgeId = Null
                  /\ steps[i - 1].description = "finalize"
                  /\ step.activeNodeId = steps[i - 1].activeNodeId
            /\ step.description \in {"update", "check"} =>
                  /\ step.activeNodeId = Last(step.permanentNodes)
                  /\ \E e \in Range(edges) :
                        e.id = step.checkingEdgeId
                            /\ Incident(e, step.activeNodeId)
            /\ step.description \in {"init", "none_reachable", "finalize",
                                     "arrive", "update", "check"}

\* A returned trace with a step of each of five kinds, the arrival step
\* being the terminal one.
C28_Witness ==
    /\ pc = "done"
    /\ \A kind \in {"init", "finalize", "update", "check", "arrive"} :
          \E i \in DOMAIN steps : steps[i].description = kind

(***************************************************************************)
(* C29.  Parent tree: in every step, every node v other than the start     *)
(* node that has a parent p satisfies: p is permanent; an edge joins p and *)
(* v with distance[v] = distance[p] + weight; and the parent links from v  *)
(* lead to the start node without passing a node twice.                    *)
(***************************************************************************)
C29_ParentTree ==
    \A i \in DOMAIN steps :
        LET labels == steps[i].nodeStates
        IN  \A v \in DOMAIN labels :
                (v # startNodeId /\ labels[v].parent # Null) =>
                    LET p    == labels[v].parent
                        path == PathTo(labels, v, Len(nodes))
                    IN  /\ labels[p].status = "permanent"
                        /\ \E e \in Joining(p, v) :
                              labels[v].distance = labels[p].distance + e.weight
                        /\ path[1] = startNodeId
                        /\ Cardinality(Range(path)) = Len(path)

\* A step in which a node has a parent that is not the start node, and in
\* which another node is labelled but not permanent.
C29_Witness ==
    \E i \in DOMAIN steps :
        LET labels == steps[i].nodeStates
        IN  /\ \E v \in DOMAIN labels :
                  /\ labels[v].parent \notin {Null, startNodeId, v}
                  /\ Len(PathTo(labels, v, Len(nodes))) >= 3
            /\ \E v \in DOMAIN labels : labels[v].status = "temporary"

(***************************************************************************)
(* C30.  Each edge is examined at most once per run: no two steps of a     *)
(* trace carry the same checkingEdgeId, so the trace has at most           *)
(* 2 + (number of nodes) + (number of edges) steps.                        *)
(***************************************************************************)
C30_EdgeExaminedOnce ==
    /\ \A i \in DOMAIN steps : \A j \in DOMAIN steps :
          (i # j /\ Examines(i) /\ Examines(j)) =>
              steps[i].checkingEdgeId # steps[j].checkingEdgeId
    /\ Len(steps) <= 2 + Len(nodes) + Len(edges)

\* A returned trace of the greatest length: every node made permanent and
\* every one of at least two edges examined.
C30_Witness ==
    /\ pc = "done"
    /\ Len(edges) >= 2
    /\ Len(steps) = 2 + Len(nodes) + Len(edges)

\* The label map that step i shows.
LabelsAt(i) == steps[i].nodeStates

\* The node at the far end of the edge that step i examines.
ExaminedNode(i) ==
    OtherEnd(EdgeWithId(steps[i].checkingEdgeId), steps[i].activeNodeId)

(***************************************************************************)
(* C31.  Step deltas are minimal.  Between a step and the step before it:  *)
(* a finalization step changes only the status of the selected node, to    *)
(* permanent, its distance and its parent being kept; an improving         *)
(* examination step changes only the label of the other endpoint of the    *)
(* examined edge; a no-improvement step, the arrival step and the "no      *)
(* further reachable nodes" step show the same label map as the step       *)
(* before.                                                                 *)
(***************************************************************************)
C31_MinimalStepDeltas ==
    \A i \in 2..Len(steps) :
        LET prev == LabelsAt(i - 1)
            cur  == LabelsAt(i)
            desc == steps[i].description
        IN  /\ desc \in {"finalize", "update", "check", "arrive", "none_reachable"}
            /\ desc = "finalize" =>
                  /\ steps[i].activeNodeId \in DOMAIN prev
                  /\ prev[steps[i].activeNodeId].status # "permanent"
                  /\ cur = [prev EXCEPT ![steps[i].activeNodeId].status = "permanent"]
            /\ desc = "update" =>
                  /\ DOMAIN cur = DOMAIN prev
                  /\ \A id \in DOMAIN cur : id # ExaminedNode(i) => cur[id] = prev[id]
                  /\ cur[ExaminedNode(i)] # prev[ExaminedNode(i)]
            /\ desc \in {"check", "arrive", "none_reachable"} => cur = prev

\* A returned trace with a finalization, an improving examination, an
\* examination without improvement and the arrival.
C31_Witness ==
    /\ pc = "done"
    /\ \E i \in DOMAIN steps : steps[i].description = "update"
    /\ \E i \in DOMAIN steps : steps[i].description = "check"
    /\ \E i \in 2..Len(steps) :
          /\ steps[i].description = "finalize"
          /\ LabelsAt(i - 1)[steps[i].activeNodeId].parent # steps[i].activeNodeId
    /\ Last(steps).description = "arrive"

\* The returned trace ends with the arrival step.
EndsWithArrival == pc = "done" /\ Last(steps).description = "arrive"

(***************************************************************************)
(* C32.  With non-negative weights, when the trace ends with the arrival   *)
(* step: every permanent node has a distance less than or equal to the     *)
(* distance of the end node; every non-permanent node with a finite        *)
(* distance has a distance greater than or equal to it, is reachable, and  *)
(* is left temporary, in the last step and in the working label map, and   *)
(* is not in the list of the permanent nodes.                              *)
(***************************************************************************)
C32_ArrivalLeavesRestTemporary ==
    (EndsWithArrival /\ NonNegativeWeights) =>
        LET last == Last(steps)
            endDistance == last.nodeStates[endNodeId].distance
        IN  /\ endDistance # Null
            /\ last.nodeStates[endNodeId].status = "permanent"
            /\ \A id \in DOMAIN last.nodeStates :
                  LET label == last.nodeStates[id] IN
                  /\ label.status = "permanent" =>
                        /\ label.distance # Null
                        /\ label.distance <= endDistance
                  /\ (label.status # "permanent" /\ label.distance # Null) =>
                        /\ label.distance >= endDistance
                        /\ label.status = "temporary"
                        /\ nodeStates[id].status = "temporary"
                        /\ id \notin Range(last.permanentNodes)
                        /\ id \notin Range(permanentNodes)
                        /\ id \in Reachable

\* A trace that ends with the arrival while a reachable node is left
\* temporary and a node other than the end node is permanent.
C32_Witness ==
    /\ EndsWithArrival
    /\ NonNegativeWeights
    /\ \E id \in DOMAIN nodeStates :
          /\ nodeStates[id].status = "temporary"
          /\ Last(steps).nodeStates[id].distance >
                Last(steps).nodeStates[endNodeId].distance
    /\ \E id \in DOMAIN nodeStates :
          /\ id # endNodeId
          /\ nodeStates[id].status = "permanent"

(***************************************************************************)
(* C33.  When the start id equals the end id and names a listed node, the  *)
(* returned trace has exactly three steps: the initialization, the         *)
(* finalization of that node with distance 0, and the arrival; no step     *)
(* examines an edge, and every other node is unvisited in every step and   *)
(* in the working label map.                                               *)
(***************************************************************************)
C33_StartIsEnd ==
    (pc = "done" /\ startNodeId = endNodeId /\ startNodeId \in NodeSet) =>
        /\ Len(steps) = 3
        /\ steps[1].description = "init"
        /\ steps[2].description = "finalize"
        /\ steps[2].activeNodeId = startNodeId
        /\ steps[2].nodeStates[startNodeId].distance = 0
        /\ steps[2].nodeStates[startNodeId].status = "permanent"
        /\ steps[3].description = "arrive"
        /\ steps[3].activeNodeId = startNodeId
        /\ steps[3].permanentNodes = <<startNodeId>>
        /\ \A i \in DOMAIN steps : ~Examines(i)
        /\ \A id \in NodeSet \ {startNodeId} :
              /\ nodeStates[id].status = "unvisited"
              /\ \A i \in DOMAIN steps : StatusAt(i, id) = "unvisited"

\* A returned call from a node to itself, the node having a neighbour.
C33_Witness ==
    /\ pc = "done"
    /\ startNodeId = endNodeId
    /\ Len(steps) = 3
    /\ \E k \in DOMAIN edges :
          /\ Incident(edges[k], startNodeId)
          /\ OtherEnd(edges[k], startNodeId) # startNodeId

PlaybackAdvances ==
    /\ isPlaying
    /\ steps' = steps
    /\ currentStepIndex' = currentStepIndex + 1
    /\ currentStepIndex' <= Len(steps) - 1
    /\ isPlaying' <=> currentStepIndex' < Len(steps) - 1

\* The playback has stopped at the last step.
StoppedAtLastStep == ~isPlaying /\ currentStepIndex = Len(steps) - 1

(***************************************************************************)
(* C35.  Autoplay eventually stops: while isPlaying is true with a         *)
(* non-empty trace and the user does nothing more, each timer tick moves   *)
(* currentStepIndex up by one, until it equals steps.length - 1; from then *)
(* on isPlaying is false and the index does not change again.              *)
(***************************************************************************)
C35_AutoplayStops ==
    /\ [][PlaybackAdvances]_vars
    /\ [](isPlaying => Len(steps) > 0 /\ currentStepIndex < Len(steps) - 1)
    /\ (isPlaying /\ Len(steps) > 0) ~> StoppedAtLastStep
    /\ [](StoppedAtLastStep => [](StoppedAtLastStep))

\* The playback, started at step 0 of a trace of several steps, has stopped
\* at its last step.
C35_Witness ==
    /\ Len(steps) > 2
    /\ StoppedAtLastStep
    /\ startNodeId = 1
    /\ endNodeId = 6

\* An id that is empty or names a node of the list.
EmptyOrListed(id) == id = NoId \/ id \in Range(nodes)

(***************************************************************************)
(* C36.  In every reachable state of the editor, after any sequence of     *)
(* add-node, add-edge, delete (the delete button of the toolbar, the       *)
(* context menu of a node or of an edge) and clear operations, startNodeId *)
(* and endNodeId are each empty or the id of a node of the node list, so   *)
(* a trace is never computed for a start or end id that names a deleted    *)
(* node.                                                                   *)
(***************************************************************************)
C36_StartAndEndListed ==
    /\ EmptyOrListed(startNodeId)
    /\ EmptyOrListed(endNodeId)
    /\ Len(steps) > 0 =>
          /\ startNodeId \in Range(nodes)
          /\ endNodeId \in Range(nodes)

\* The node list and the edge list of the editor form a simple graph: no id
\* is listed twice, every edge joins two distinct listed nodes, and no two
\* edges join the same two nodes.
SimpleGraph ==
    /\ \A i \in DOMAIN nodes : \A j \in DOMAIN nodes :
          i # j => nodes[i] # nodes[j]
    /\ \A k \in DOMAIN edges :
          /\ edges[k].source \in Range(nodes)
          /\ edges[k].target \in Range(nodes)
          /\ edges[k].source # edges[k].target
    /\ \A j \in DOMAIN edges : \A k \in DOMAIN edges :
          j # k => {edges[j].source, edges[j].target}
                      # {edges[k].source, edges[k].target}

\* The edge was drawn in the editor: it is none of the default graph.
Drawn(e) == e \notin Range(INITIAL_EDGES)

(***************************************************************************)
(* C37 as claimed.  In every reachable state of the editor, starting from  *)
(* the default graph and applying any sequence of add-node, add-edge and   *)
(* delete operations: node ids are unique, the source and the target of    *)
(* every edge are ids of listed nodes, no edge is a self-loop, no two      *)
(* edges join the same unordered pair of nodes, and every edge weight is   *)
(* an integer between 2 and 10.                                            *)
(***************************************************************************)
C37_WeightsFromTwo ==
    /\ SimpleGraph
    /\ \A k \in DOMAIN edges : edges[k].weight \in 2..10

(***************************************************************************)
(* C37 as amended.  The same, with every edge weight an integer between 1  *)
(* and 10, and between 2 and 10 for an edge drawn in the editor.           *)
(***************************************************************************)
C37_EditorGraphWellFormed ==
    /\ SimpleGraph
    /\ \A k \in DOMAIN edges :
          /\ edges[k].weight \in 1..10
          /\ Drawn(edges[k]) => edges[k].weight \in 2..10

\* An edge has been drawn in the editor.
C37_Witness ==
    /\ edits > 0
    /\ \E k \in DOMAIN edges : Drawn(edges[k])

====
